---------------------------- MODULE Spec2Model ----------------------------
(***************************************************************************)
(* Model of the task-graph scheduler of src/src/agents/orchestrator.py     *)
(* (AgentOrchestrator, SubAgent) and of the task model of                  *)
(* src/src/agents/task.py.                                                 *)
(* It also models the provider gateway (call_llm_with_fallback), the      *)
(* ReAct loop (react) and the sandbox tools (execute_action, tool_shell,   *)
(* tool_read_file, tool_write_file, tool_search) of src/vibe_shell.py.     *)
(*                                                                         *)
(* The orchestrator runs on one asyncio event loop: the code between two   *)
(* suspension points of a coroutine is one atomic step.  Every action      *)
(* below is one such step.  An asyncio task made by asyncio.create_task    *)
(* does not run at once: it is queued, and other steps may run before its  *)
(* first step does.                                                        *)
(***************************************************************************)
EXTENDS Integers, FiniteSets, Sequences, TLC

\* ------------------------------------------------------------------ bounds
MaxTasks == 3
MaxAgents == 2
MaxParallel == 2

TaskIds == 1..MaxTasks
AgentIds == 1..MaxAgents
\* task.id is str(uuid.uuid4())[:8]: the k-th task created gets id k
\* (self.tasks is a dict, iterated in insertion order).
\* An id that names no task of the map, as a caller may pass in dependencies.
AbsentId == MaxTasks + 1
\* The id a workflow config i carries under its "id" key: a caller's string,
\* chosen before any task id exists, so it is none of the task ids.
CfgId(i) == MaxTasks + 1 + i
AgentTypes == {"general", "code"}
\* No agent: the agent_id argument None, and `agent = None` in _execute_task.
NoAgent == 0

\* ------------------------------------------------------------- task model
PENDING == "pending"
RUNNING == "running"
COMPLETED == "completed"
FAILED == "failed"
CANCELLED == "cancelled"

\* Task.result: None, or the TaskResult built by TaskResult.ok(...).
NoResult == [present |-> FALSE, success |-> FALSE, error |-> "", agent_id |-> NoAgent]
TaskResultOk(a) == [present |-> TRUE, success |-> TRUE, error |-> "", agent_id |-> a]

VARIABLES
    agents,       \* self.agents, in registration order: agent k has type agents[k]
    tasks,        \* the keys of self.tasks
    status,       \* task.status
    result,       \* task.result
    deps,         \* task.dependencies (only membership is ever read)
    agentType,    \* task.agent_type
    agentArg,     \* the agent_id passed to _execute_task for the task
    sched,        \* _execute_task coroutines created by create_task, not yet started
    inflight,     \* executions suspended inside SubAgent.execute, per agent
    returned,     \* executions whose execute returned, _execute_task not yet resumed
    execCount,    \* history: number of calls of SubAgent.execute on the task
    notified,     \* history: number of _notify_callbacks calls for the task
    parN,         \* execute_parallel: number of goals of the call (0: no call)
    parMax,       \* execute_parallel: max_parallel
    parType,      \* execute_parallel: agent_type
    sem,          \* execute_parallel: the semaphore's value
    goalPc,       \* run_with_limit of goal g: "wait", "poll" or "done"
    goalTask,     \* the task submitted for goal g (0: none yet)
    goalResult,   \* what run_with_limit returned for goal g
    created_tasks, \* execute_workflow: config index -> task id
    llm_providers, \* VibeShell.llm_providers: provider names, by priority
    is_available,  \* LLMProvider.is_available of each provider
    initialized,   \* VibeShell._initialized
    gw,            \* call_llm_with_fallback of caller l: its frame
    rx,            \* react of caller l: its frame
    tc,            \* execute_action: the frame of the current call
    fsys           \* the file system: directories, and files with their text

schedVars == <<agents, tasks, status, result, deps, agentType, agentArg,
               sched, inflight, returned, execCount, notified>>
parVars == <<parN, parMax, parType, sem, goalPc, goalTask, goalResult>>
shellVars == <<llm_providers, is_available, initialized, gw, rx>>
toolVars == <<tc, fsys>>
vars == <<schedVars, parVars, created_tasks, shellVars, toolVars>>

\* -------------------------------------------------------------- vibe shell
\* src/vibe_shell.py: the provider list, the gateway call_llm_with_fallback
\* and the ReAct loop react.  The shell runs on one asyncio event loop; a
\* caller is one coroutine that calls the gateway or runs react.
MaxLoops == 2
MaxCalls == 2
MAX_LLM_RETRIES == 3
LLM_RETRY_DELAY == 1
MAX_STEPS == 6
DEFAULT_TIMEOUT == 30

Loops == 1..MaxLoops
ProviderNames == {"anthropic", "openai"}
Priority(p) == IF p = "anthropic" THEN 1 ELSE 2
Errors == {"e1", "e2"}
Goals == {"g1", " "}
TOOLS == {"shell", "read_file", "write_file", "search"}
ToolOutputs == {"out", "(error executing shell)"}

\* A text is a sequence of tokens; the markers are tokens of their own.
NoText == <<>>
Blank(tok) == tok \in {"", " "}
NoProvidersText == <<"ANSWER:", "No LLM providers available.">>
AllFailedText(e) == <<"ANSWER:", "All LLM providers failed. Last error:", e>>
LLMTexts ==
    { <<"THOUGHT:", "t", "ANSWER:", "done">>,
      <<"ACTION:", "shell(ls)", "ANSWER:", "done">>,
      <<"THOUGHT:", "t", "ACTION:", "shell(ls)">>,
      <<"ACTION:", "bogus(x)">>,
      <<"ACTION:", "shell(ls)", "ANSWER:", " ">>,
      <<"hello">> }
ToolOf(tok) ==
    CASE tok = "shell(ls)" -> "shell"
      [] tok = "bogus(x)" -> "bogus"
      [] OTHER -> ""

\* Optional[str]: <<>> is None, <<v>> is the value v.
None == <<>>
Some(v) == <<v>>
Truthy(opt) == opt # None /\ opt[1] # <<>>

FirstIndex(text, marker) ==
    IF \E i \in DOMAIN text : text[i] = marker
    THEN CHOOSE i \in DOMAIN text :
             text[i] = marker /\ \A j \in 1..(i - 1) : text[j] # marker
    ELSE 0

\* str.strip on a token sequence
RECURSIVE lstrip(_)
lstrip(text) ==
    IF text # <<>> /\ Blank(Head(text)) THEN lstrip(Tail(text)) ELSE text
RECURSIVE rstrip(_)
rstrip(text) ==
    IF text # <<>> /\ Blank(text[Len(text)])
    THEN rstrip(SubSeq(text, 1, Len(text) - 1))
    ELSE text
strip(text) == rstrip(lstrip(text))

\* Step of vibe_shell.py; action is the tool's name, "" when there is none
Step(th, ac, an) ==
    [thought |-> th, action |-> ac, answer |-> an, observation |-> None]

\* VibeShell.parse_llm_response
parse_llm_response(text) ==
    LET it == FirstIndex(text, "THOUGHT:")
        ia == FirstIndex(text, "ANSWER:")
        acts == {i \in DOMAIN text :
                    /\ text[i] = "ACTION:"
                    /\ i < Len(text)
                    /\ ToolOf(text[i + 1]) # ""}
        stops == {j \in DOMAIN text :
                    j > it /\ text[j] \in {"ACTION:", "ANSWER:"}}
        tend == IF stops = {} THEN Len(text)
                ELSE (CHOOSE j \in stops : \A k \in stops : j <= k) - 1
        th == IF it = 0 \/ it = Len(text) THEN <<>>
              ELSE strip(SubSeq(text, it + 1, tend))
        ac == IF acts = {} THEN ""
              ELSE ToolOf(text[(CHOOSE i \in acts : \A k \in acts : i <= k) + 1])
        an == IF ia = 0 \/ ia = Len(text) THEN None
              ELSE Some(strip(SubSeq(text, ia + 1, Len(text))))
    IN  Step(th, ac, an)

Message(role, content) == [role |-> role, content |-> content]
SystemMessage == Message("system", <<"SYSTEM_PROMPT">>)
UserMessage(goal) == Message("user", <<"Current directory: cwd", "User:", goal>>)
AssistantMessage(response) == Message("assistant", response)
ObservationMessage(obs) == Message("user", <<"OBSERVATION:", obs>>)

NotSureText == <<"I'm not sure what to do. Can you be more specific?">>
TooManyStepsText == <<"I took too many steps without reaching a conclusion.">>
EmptyInputText == <<"Please enter a command or question.">>

NoCalls == [p \in ProviderNames |-> 0]
NoErrs == [p \in ProviderNames |-> ""]
NoSleeps == [p \in ProviderNames |-> <<>>]
\* the frame of a gateway call: where it is suspended (pc), the provider
\* and attempt of its loops, last_error, what it returned (ret), and, for
\* the properties, the number of the call (n), the API calls made and
\* failed per provider in this call, each provider's latest error, and
\* the delays slept between the attempts on each provider (slept).
IdleGw ==
    [pc |-> "idle", prov |-> 0, attempt |-> 0, last_error |-> "", n |-> 0,
     calls |-> NoCalls, fails |-> NoCalls, errs |-> NoErrs,
     slept |-> NoSleeps, ret |-> NoText, by |-> ""]
\* the frame of react: pc is "none" (not called), "llm" (awaiting the
\* gateway), "tool" (awaiting execute_action) or "done" (returned ret).
NoReact ==
    [pc |-> "none", user_input |-> "", i |-> 0, messages |-> <<>>,
     response |-> NoText,
     steps |-> <<>>, responses |-> <<>>, ret |-> NoText,
     llmCalls |-> 0, toolRuns |-> 0]

\* ------------------------------------------------------------ sandbox tools
\* Argument values are token sequences like every other text of the model.
\* NotStr stands for a value that is not a str (isinstance(v, str) is false).
NotStr == <<"<int>">>
isinstance_str(v) == v # NotStr

\* Keyword arguments of an Action: a function from argument names to values.
NoArgs == <<>>
Arg1(k, v) == [x \in {k} |-> v]
Arg2(k1, v1, k2, v2) == [x \in {k1, k2} |-> IF x = k1 THEN v1 ELSE v2]
\* dict.get(k, default)
get(a, k, default) == IF k \in DOMAIN a THEN a[k] ELSE default

\* The file system.  A resolved path is the sequence of its components from
\* the root; a path string is a token sequence whose first token is "/" when
\* the path is absolute and "~" when it starts at the home directory.
cwd == <<"/", "w">>
\* The one symbolic link of the tree: w/link -> /etc.
ReadLink(rp) == IF rp = <<"w", "link">> THEN <<"etc">> ELSE rp
FsInit ==
    [dirs |-> {<<>>, <<"w">>, <<"w", "sub">>, <<"w2">>, <<"etc">>, <<"home">>},
     files |-> {<<<<"w", "a.txt">>, <<"hi">>>>, <<<<"w2", "a.txt">>, <<"x">>>>,
                <<<<"etc", "passwd">>, <<"root">>>>}]

\* The frame of one execute_action call.
\*   pc      "idle", "spawn" (inside create_subprocess_shell), "communicate"
\*           (inside wait_for(proc.communicate())), "wait" (inside
\*           proc.wait()), "done" (returned) or "raised"
\*   body    the tool body that ran, with its arguments; None when none ran
\*   io      the file operations of the call: opens, reads, writes, mkdirs
\*   spawns  number of create_subprocess_shell calls of the call
\*   proc    the shell process: "none", "running", "killed" (SIGKILL sent)
\*           or "reaped" (exited and waited for by the event loop)
\*   child   the process the shell forked for the command: "none", "piped"
\*           (running, holding the output pipes), "detached" (running, its
\*           output redirected) or "exited"
IdleCall ==
    [pc |-> "idle", tool |-> "", args |-> NoArgs, body |-> <<>>, cmd |-> <<>>,
     timeout |-> 0, ret |-> <<>>, io |-> {}, spawns |-> 0, proc |-> "none",
     child |-> "none", killed |-> FALSE]

ShellInit ==
    /\ llm_providers = <<>>
    /\ is_available = [p \in ProviderNames |-> TRUE]
    /\ initialized = FALSE
    /\ gw = [l \in Loops |-> IdleGw]
    /\ rx = [l \in Loops |-> NoReact]

StatusReady(s) == s = PENDING
is_ready(t) == StatusReady(status[t])
is_done(t) == status[t] \in {COMPLETED, FAILED, CANCELLED}

NewId == Cardinality(tasks) + 1

Init ==
    /\ agents = <<>>
    /\ tasks = {}
    /\ status = [t \in TaskIds |-> PENDING]
    /\ result = [t \in TaskIds |-> NoResult]
    /\ deps = [t \in TaskIds |-> {}]
    /\ agentType = [t \in TaskIds |-> "general"]
    /\ agentArg = [t \in TaskIds |-> NoAgent]
    /\ sched = [t \in TaskIds |-> 0]
    /\ inflight = [t \in TaskIds |-> [a \in AgentIds |-> 0]]
    /\ returned = [t \in TaskIds |-> [a \in AgentIds |-> 0]]
    /\ execCount = [t \in TaskIds |-> 0]
    /\ notified = [t \in TaskIds |-> 0]
    /\ parN = 0
    /\ parMax = 0
    /\ parType = "general"
    /\ sem = 0
    /\ goalPc = [g \in TaskIds |-> "wait"]
    /\ goalTask = [g \in TaskIds |-> 0]
    /\ goalResult = [g \in TaskIds |-> NoResult]
    /\ created_tasks = <<>>
    /\ ShellInit
    /\ tc = IdleCall
    /\ fsys = FsInit

\* ------------------------------------------------------------- operations
\* AgentOrchestrator.create_agent
CreateAgent(ty) ==
    /\ Len(agents) < MaxAgents
    /\ agents' = Append(agents, ty)
    /\ UNCHANGED <<tasks, status, result, deps, agentType, agentArg, sched,
                   inflight, returned, execCount, notified, parVars, created_tasks, shellVars, toolVars>>

\* Task.create followed by self.tasks[task.id] = task, as submit_task and
\* execute_workflow do it: the new task is Pending with no result.
Registered(id, ty, ds) ==
    /\ tasks' = tasks \cup {id}
    /\ status' = [status EXCEPT ![id] = PENDING]
    /\ deps' = [deps EXCEPT ![id] = ds]
    /\ agentType' = [agentType EXCEPT ![id] = ty]

\* AgentOrchestrator.submit_task: the task is dispatched at submission only
\* under `task.is_ready and not dependencies`.
SubmitTask(ty, aid, ds) ==
    /\ Cardinality(tasks) < MaxTasks
    /\ Registered(NewId, ty, ds)
    /\ agentArg' = [agentArg EXCEPT ![NewId] = aid]
    /\ sched' = [sched EXCEPT ![NewId] = IF StatusReady(PENDING) /\ ds = {} THEN 1 ELSE 0]
    /\ UNCHANGED <<agents, result, inflight, returned, execCount, notified,
                   parVars, created_tasks, shellVars, toolVars>>

\* AgentOrchestrator.cancel_task, when it returns True.  (When the task is
\* unknown or done it returns False and changes nothing.)
CancelTask(t) ==
    /\ t \in tasks
    /\ ~is_done(t)
    /\ status' = [status EXCEPT ![t] = CANCELLED]
    /\ UNCHANGED <<agents, tasks, result, deps, agentType, agentArg, sched,
                   inflight, returned, execCount, notified, parVars, created_tasks, shellVars, toolVars>>

\* a variant of FirstOfType that picks the agent of the type registered last
LastOfType(ty) ==
    IF \E k \in 1..Len(agents) : agents[k] = ty
    THEN CHOOSE k \in 1..Len(agents) :
            /\ agents[k] = ty
            /\ \A j \in (k + 1)..Len(agents) : agents[j] # ty
    ELSE NoAgent

\* The agent _execute_task picks: the one named by agent_id when registered,
\* else the first registered agent of the task's type, else the first agent,
\* else none.
FirstOfType(ty) ==
    IF \E k \in 1..Len(agents) : agents[k] = ty
    THEN CHOOSE k \in 1..Len(agents) :
            /\ agents[k] = ty
            /\ \A j \in 1..(k - 1) : agents[j] # ty
    ELSE NoAgent

SelectAgent(t) ==
    IF agentArg[t] # NoAgent /\ agentArg[t] \in 1..Len(agents)
    THEN agentArg[t]
    ELSE IF FirstOfType(agentType[t]) # NoAgent
         THEN FirstOfType(agentType[t])
         ELSE IF Len(agents) > 0 THEN 1 ELSE NoAgent

\* First step of a queued _execute_task when no agent is found: the task is
\* marked Failed, then TaskResult.error(...) is evaluated.  TaskResult has no
\* method `error`: the name is the dataclass field's default, None, so the
\* call raises TypeError and the coroutine ends there: no result is assigned
\* and no callback is notified.
DispatchNoAgent(t) ==
    /\ sched[t] > 0
    /\ SelectAgent(t) = NoAgent
    /\ sched' = [sched EXCEPT ![t] = @ - 1]
    /\ status' = [status EXCEPT ![t] = FAILED]
    /\ UNCHANGED <<agents, tasks, result, deps, agentType, agentArg,
                   inflight, returned, execCount, notified, parVars, created_tasks, shellVars, toolVars>>

\* First step of a queued _execute_task with an agent: SubAgent.execute is
\* called, sets the task Running, and suspends in llm_provider.complete.
Dispatch(t) ==
    /\ sched[t] > 0
    /\ SelectAgent(t) # NoAgent
    /\ sched' = [sched EXCEPT ![t] = @ - 1]
    /\ status' = [status EXCEPT ![t] = RUNNING]
    /\ execCount' = [execCount EXCEPT ![t] = @ + 1]
    /\ inflight' = [inflight EXCEPT ![t][SelectAgent(t)] = @ + 1]
    /\ UNCHANGED <<agents, tasks, result, deps, agentType, agentArg,
                   returned, notified, parVars, created_tasks, shellVars, toolVars>>

\* SubAgent.execute resumes with the backend's response: the task is marked
\* Completed and TaskResult.ok(...) is returned to asyncio.wait_for.
ExecuteReturn(t, a) ==
    /\ inflight[t][a] > 0
    /\ inflight' = [inflight EXCEPT ![t][a] = @ - 1]
    /\ status' = [status EXCEPT ![t] = COMPLETED]
    /\ returned' = [returned EXCEPT ![t][a] = @ + 1]
    /\ UNCHANGED <<agents, tasks, result, deps, agentType, agentArg, sched,
                   execCount, notified, parVars, created_tasks, shellVars, toolVars>>

\* SubAgent.execute resumes with an exception of the backend: the task is
\* marked Failed, then TaskResult.error(...) raises TypeError, which leaves
\* execute, wait_for and _execute_task (it catches TimeoutError only).
ExecuteRaise(t, a) ==
    /\ inflight[t][a] > 0
    /\ inflight' = [inflight EXCEPT ![t][a] = @ - 1]
    /\ status' = [status EXCEPT ![t] = FAILED]
    /\ UNCHANGED <<agents, tasks, result, deps, agentType, agentArg, sched,
                   returned, execCount, notified, parVars, created_tasks, shellVars, toolVars>>

\* asyncio.wait_for times out: execute is cancelled (CancelledError is not an
\* Exception, its handler does not run), _execute_task marks the task Failed
\* and TaskResult.error(...) raises TypeError.
ExecuteTimeout(t, a) ==
    /\ inflight[t][a] > 0
    /\ inflight' = [inflight EXCEPT ![t][a] = @ - 1]
    /\ status' = [status EXCEPT ![t] = FAILED]
    /\ UNCHANGED <<agents, tasks, result, deps, agentType, agentArg, sched,
                   returned, execCount, notified, parVars, created_tasks, shellVars, toolVars>>

\* _check_dependent_tasks(completed_task): the tasks it passes to
\* asyncio.create_task(self._execute_task(task)).
Triggered(c) ==
    {u \in tasks :
        /\ status[u] = PENDING
        /\ c \in deps[u]
        /\ \A d \in deps[u] : d \in tasks => is_done(d)}

\* _execute_task resumes after wait_for: result assignment, callbacks, and
\* the scan of the pending tasks.  asyncio.wait_for runs execute in a task
\* of its own on CPython up to 3.11, so other steps may run between
\* ExecuteReturn and this step; where wait_for awaits the coroutine itself
\* the two steps follow each other directly, which is one of the orders here.
Resume(t, a) ==
    /\ returned[t][a] > 0
    /\ returned' = [returned EXCEPT ![t][a] = @ - 1]
    /\ result' = [result EXCEPT ![t] = TaskResultOk(a)]
    /\ notified' = [notified EXCEPT ![t] = @ + 1]
    /\ sched' = [u \in TaskIds |-> IF u \in Triggered(t) THEN sched[u] + 1 ELSE sched[u]]
    /\ UNCHANGED <<agents, tasks, status, deps, agentType, agentArg, inflight,
                   execCount, parVars, created_tasks, shellVars, toolVars>>

\* The steps of the scheduler's own coroutines.
SchedulerStep ==
    \/ \E t \in TaskIds : DispatchNoAgent(t)
    \/ \E t \in TaskIds : Dispatch(t)
    \/ \E t \in TaskIds, a \in AgentIds : ExecuteReturn(t, a)
    \/ \E t \in TaskIds, a \in AgentIds : ExecuteRaise(t, a)
    \/ \E t \in TaskIds, a \in AgentIds : ExecuteTimeout(t, a)
    \/ \E t \in TaskIds, a \in AgentIds : Resume(t, a)

\* The callers of the public operations.  submit_task is called with the
\* default agent_id (None); dependencies name registered tasks or no task.
Next ==
    \/ \E ty \in AgentTypes : CreateAgent(ty)
    \/ \E ty \in AgentTypes, ds \in SUBSET (tasks \cup {AbsentId}) :
          SubmitTask(ty, NoAgent, ds)
    \/ \E t \in TaskIds : CancelTask(t)
    \/ SchedulerStep

Spec == Init /\ [][Next]_vars

\* No coroutine of the scheduler is queued or suspended.
Quiescent ==
    \A t \in TaskIds :
        /\ sched[t] = 0
        /\ \A a \in AgentIds : inflight[t][a] = 0 /\ returned[t][a] = 0

\* Callers that also name an agent: submit_task(description, agent_type,
\* agent_id) with agent_id None or an id that may or may not be registered,
\* and no dependencies.
NextSelect ==
    \/ \E ty \in AgentTypes : CreateAgent(ty)
    \/ \E ty \in AgentTypes, aid \in {NoAgent} \cup AgentIds :
          SubmitTask(ty, aid, {})
    \/ SchedulerStep

SpecSelect == Init /\ [][NextSelect]_vars

\* -------------------------------------------------------- execute_parallel
\* AgentOrchestrator.execute_parallel(descriptions, agent_type, max_parallel)
\* up to asyncio.gather: a semaphore of max_parallel permits and one
\* run_with_limit coroutine per description.
ExecuteParallel(n, ty, mp) ==
    /\ parN = 0
    /\ Cardinality(tasks) + n <= MaxTasks
    /\ parN' = n
    /\ parMax' = mp
    /\ parType' = ty
    /\ sem' = mp
    /\ UNCHANGED <<schedVars, goalPc, goalTask, goalResult, created_tasks, shellVars, toolVars>>

\* run_with_limit(desc) enters `async with semaphore` and submits its task:
\* submit_task(desc, agent_type) has no dependencies, so the task's dispatch
\* is queued.  The first test of task.is_done follows at once and fails.
\* asyncio.Semaphore wakes its waiters in the order they arrived.
AcquireSubmit(g) ==
    /\ g \in 1..parN
    /\ goalPc[g] = "wait"
    /\ \A h \in 1..(g - 1) : goalPc[h] # "wait"
    /\ sem > 0
    /\ sem' = sem - 1
    /\ Registered(NewId, parType, {})
    /\ sched' = [sched EXCEPT ![NewId] = 1]
    /\ goalTask' = [goalTask EXCEPT ![g] = NewId]
    /\ goalPc' = [goalPc EXCEPT ![g] = "poll"]
    /\ UNCHANGED <<agents, result, agentArg, inflight, returned, execCount,
                   notified, parN, parMax, parType, goalResult, created_tasks, shellVars, toolVars>>

\* run_with_limit wakes from asyncio.sleep(0.1) and finds task.is_done: it
\* returns task.result as it is now and leaves `async with`, which releases
\* the semaphore.  (A wake-up that finds the task not done changes nothing.)
PollDone(g) ==
    /\ g \in 1..parN
    /\ goalPc[g] = "poll"
    /\ is_done(goalTask[g])
    /\ goalResult' = [goalResult EXCEPT ![g] = result[goalTask[g]]]
    /\ sem' = sem + 1
    /\ goalPc' = [goalPc EXCEPT ![g] = "done"]
    /\ UNCHANGED <<schedVars, parN, parMax, parType, goalTask, created_tasks, shellVars, toolVars>>

\* asyncio.gather returns once every run_with_limit has returned.
ParallelReturned == parN > 0 /\ \A g \in 1..parN : goalPc[g] = "done"

NextParallel ==
    \/ \E ty \in AgentTypes : CreateAgent(ty)
    \/ \E n \in 1..MaxTasks, ty \in AgentTypes, mp \in 1..MaxParallel :
          ExecuteParallel(n, ty, mp)
    \/ \E g \in TaskIds : AcquireSubmit(g)
    \/ \E g \in TaskIds : PollDone(g)
    \/ \E t \in TaskIds : CancelTask(t)
    \/ SchedulerStep

SpecParallel == Init /\ [][NextParallel]_vars

\* -------------------------------------------------------- execute_workflow
\* The configs of a workflow: config i has "id" CfgId(i) and its
\* "dependencies" name configs before it in the list (an acyclic graph).
WorkflowConfigs(n) ==
    {cfg \in [1..n -> [agent_type : AgentTypes,
                       dependencies : SUBSET {CfgId(j) : j \in 1..(n - 1)}]] :
        \A i \in 1..n : cfg[i].dependencies \subseteq {CfgId(j) : j \in 1..(i - 1)}}

\* AgentOrchestrator.execute_workflow(tasks_config): every config becomes a
\* task whose dependencies are the config's list as given, then the tasks
\* with an empty list are dispatched.  Task k of the call gets id NewId+k-1.
ExecuteWorkflow(n, cfg) ==
    /\ created_tasks = <<>>
    /\ Cardinality(tasks) + n <= MaxTasks
    /\ LET id(i) == Cardinality(tasks) + i
           new == {id(i) : i \in 1..n}
           cfgOf(t) == cfg[t - Cardinality(tasks)]
       IN /\ tasks' = tasks \cup new
          /\ status' = [t \in TaskIds |-> IF t \in new THEN PENDING ELSE status[t]]
          /\ deps' = [t \in TaskIds |->
                        IF t \in new THEN cfgOf(t).dependencies ELSE deps[t]]
          /\ agentType' = [t \in TaskIds |->
                        IF t \in new THEN cfgOf(t).agent_type ELSE agentType[t]]
          /\ sched' = [t \in TaskIds |->
                        IF t \in new /\ cfgOf(t).dependencies = {}
                        THEN sched[t] + 1 ELSE sched[t]]
          /\ created_tasks' = [i \in 1..n |-> id(i)]
    /\ UNCHANGED <<agents, result, agentArg, inflight, returned, execCount,
                   notified, parVars, shellVars, toolVars>>

NextWorkflow ==
    \/ \E ty \in AgentTypes : CreateAgent(ty)
    \/ /\ created_tasks = <<>>
       /\ \E n \in 1..(MaxTasks - Cardinality(tasks)) :
             \E cfg \in WorkflowConfigs(n) : ExecuteWorkflow(n, cfg)
    \/ \E t \in TaskIds : CancelTask(t)
    \/ SchedulerStep

SpecWorkflow == Init /\ [][NextWorkflow]_vars

\* ------------------------------------------------- call_llm_with_fallback
\* VibeShell._init_llm_providers: sorted(providers, key=priority)
sorted(keys) ==
    IF keys = {} THEN <<>>
    ELSE CHOOSE q \in [1..Cardinality(keys) -> keys] :
             \A i, j \in 1..Cardinality(keys) :
                 i < j => Priority(q[i]) < Priority(q[j])

\* VibeShell.initialize: keys are the providers whose API key is set
initialize(keys) ==
    /\ ~initialized
    /\ initialized' = TRUE
    /\ llm_providers' = sorted(keys)
    /\ is_available' = [p \in ProviderNames |-> TRUE]
    /\ UNCHANGED <<schedVars, parVars, created_tasks, toolVars, gw, rx>>

\* the next provider of the for loop that passes `if not is_available`
NextAvailable(from, avail) ==
    LET c == {k \in DOMAIN llm_providers :
                 k >= from /\ avail[llm_providers[k]]}
    IN  IF c = {} THEN 0 ELSE CHOOSE k \in c : \A m \in c : k <= m

\* call_llm_with_fallback from its entry to its first await or its return
GwEnter(g, avail) ==
    LET k == NextAvailable(1, avail)
        base == [IdleGw EXCEPT !.n = g.n + 1]
    IN  IF llm_providers = <<>>
        THEN [base EXCEPT !.ret = NoProvidersText]
        ELSE IF k = 0
        THEN [base EXCEPT !.ret = AllFailedText("")]
        ELSE [base EXCEPT !.pc = "api", !.prov = k,
                          !.calls[llm_providers[k]] = 1]

\* a variant of GwOnReturn that does not return on success: it keeps the
\* text and makes one more attempt on the same provider
GwOnReturn_NoStop(g, text) ==
    [g EXCEPT !.ret = text, !.by = llm_providers[g.prov],
              !.calls[llm_providers[g.prov]] = @ + 1]

\* the awaited _call_anthropic / _call_openai returns: return its text
GwOnReturn(g, text) ==
    [g EXCEPT !.pc = "idle", !.ret = text, !.by = llm_providers[g.prov]]

\* a variant of sleep_time without backoff: every delay is retry_delay
sleep_time_Fixed(attempt) == LLM_RETRY_DELAY
\* sleep_time = retry_delay * (2 ** attempt), in seconds
sleep_time(attempt) == LLM_RETRY_DELAY * 2 ^ attempt

\* a variant of GwOnError that forgets to record the error in last_error
GwOnError_NoLastError(g, e, avail) ==
    LET p == llm_providers[g.prov]
        g1 == [g EXCEPT !.fails[p] = @ + 1, !.errs[p] = e]
        av == [avail EXCEPT ![p] = FALSE]
        k == NextAvailable(g.prov + 1, av)
    IN  IF g.attempt < MAX_LLM_RETRIES - 1
        THEN [gw |-> [g1 EXCEPT !.pc = "sleep",
                                !.slept[p] = Append(@, sleep_time(g.attempt))],
              avail |-> avail]
        ELSE IF k = 0
        THEN [gw |-> [g1 EXCEPT !.pc = "idle",
                                !.ret = AllFailedText(g1.last_error)],
              avail |-> av]
        ELSE [gw |-> [g1 EXCEPT !.pc = "api", !.prov = k, !.attempt = 0,
                                !.calls[llm_providers[k]] = @ + 1],
              avail |-> av]

\* the awaited API call raises e: the two except branches, which are alike
GwOnError(g, e, avail) ==
    LET p == llm_providers[g.prov]
        g1 == [g EXCEPT !.last_error = e, !.fails[p] = @ + 1, !.errs[p] = e]
        av == [avail EXCEPT ![p] = FALSE]
        k == NextAvailable(g.prov + 1, av)
    IN  IF g.attempt < MAX_LLM_RETRIES - 1
        THEN [gw |-> [g1 EXCEPT !.pc = "sleep",
                                !.slept[p] = Append(@, sleep_time(g.attempt))],
              avail |-> avail]
        ELSE IF k = 0
        THEN [gw |-> [g1 EXCEPT !.pc = "idle", !.ret = AllFailedText(e)],
              avail |-> av]
        ELSE [gw |-> [g1 EXCEPT !.pc = "api", !.prov = k, !.attempt = 0,
                                !.calls[llm_providers[k]] = @ + 1],
              avail |-> av]

\* asyncio.sleep(retry_delay * 2 ** attempt) is over: the next attempt
GwOnWake(g) ==
    [g EXCEPT !.pc = "api", !.attempt = @ + 1,
              !.calls[llm_providers[g.prov]] = @ + 1]

\* ------------------------------------------------------------------- react
UnknownToolText == "(unknown tool: bogus)"

RECURSIVE ReactIterate(_, _, _)

\* a variant of ReactObserve that goes on to the next iteration without
\* appending the response and the observation to messages
ReactObserve_NoAppend(r, g, avail, obs) ==
    ReactIterate(
        [r EXCEPT !.steps[Len(r.steps)].observation = Some(obs),
                  !.i = @ + 1],
        g, avail)

\* react: messages.append(assistant), messages.append(OBSERVATION), and on
\* to the next iteration of the for loop
ReactObserve(r, g, avail, obs) ==
    ReactIterate(
        [r EXCEPT !.steps[Len(r.steps)].observation = Some(obs),
                  !.messages = @ \o <<AssistantMessage(r.response),
                                      ObservationMessage(obs)>>,
                  !.i = @ + 1],
        g, avail)

\* a variant of ReactOnResponse that looks at step.action before step.answer
ReactOnResponse_ActionFirst(r, g, avail) ==
    LET step == parse_llm_response(g.ret)
        r1 == [r EXCEPT !.response = g.ret,
                        !.steps = Append(@, step),
                        !.responses = Append(@, g.ret)]
    IN  IF step.action # ""
        THEN IF step.action \in TOOLS
             THEN [rx |-> [r1 EXCEPT !.pc = "tool", !.toolRuns = @ + 1],
                   gw |-> g]
             ELSE ReactObserve([r1 EXCEPT !.toolRuns = @ + 1], g, avail,
                               UnknownToolText)
        ELSE IF Truthy(step.answer)
        THEN [rx |-> [r1 EXCEPT !.pc = "done", !.ret = step.answer[1]],
              gw |-> g]
        ELSE [rx |-> [r1 EXCEPT !.pc = "done", !.ret = NotSureText], gw |-> g]

\* a variant of ReactOnResponse that asks the gateway again when the step
\* has neither an action nor an answer
ReactOnResponse_AskAgain(r, g, avail) ==
    LET step == parse_llm_response(g.ret)
        r1 == [r EXCEPT !.response = g.ret,
                        !.steps = Append(@, step),
                        !.responses = Append(@, g.ret)]
    IN  IF Truthy(step.answer)
        THEN [rx |-> [r1 EXCEPT !.pc = "done", !.ret = step.answer[1]],
              gw |-> g]
        ELSE IF step.action # ""
        THEN IF step.action \in TOOLS
             THEN [rx |-> [r1 EXCEPT !.pc = "tool", !.toolRuns = @ + 1],
                   gw |-> g]
             ELSE ReactObserve([r1 EXCEPT !.toolRuns = @ + 1], g, avail,
                               UnknownToolText)
        ELSE ReactIterate([r1 EXCEPT !.i = @ + 1], g, avail)

\* react from the return of call_llm_with_fallback (g.ret) to its next
\* await or its return
ReactOnResponse(r, g, avail) ==
    LET step == parse_llm_response(g.ret)
        r1 == [r EXCEPT !.response = g.ret,
                        !.steps = Append(@, step),
                        !.responses = Append(@, g.ret)]
    IN  IF Truthy(step.answer)
        THEN [rx |-> [r1 EXCEPT !.pc = "done", !.ret = step.answer[1]],
              gw |-> g]
        ELSE IF step.action # ""
        THEN IF step.action \in TOOLS
             THEN [rx |-> [r1 EXCEPT !.pc = "tool", !.toolRuns = @ + 1],
                   gw |-> g]
             ELSE ReactObserve([r1 EXCEPT !.toolRuns = @ + 1], g, avail,
                               UnknownToolText)
        ELSE [rx |-> [r1 EXCEPT !.pc = "done", !.ret = NotSureText], gw |-> g]

\* a variant of ReactIterate whose loop ends one iteration early
ReactIterate_OneLess(r, g, avail) ==
    IF r.i >= MAX_STEPS - 1
    THEN [rx |-> [r EXCEPT !.pc = "done", !.ret = TooManyStepsText], gw |-> g]
    ELSE LET g1 == GwEnter(g, avail)
             r1 == [r EXCEPT !.llmCalls = @ + 1]
         IN  IF g1.pc = "idle"
             THEN ReactOnResponse(r1, g1, avail)
             ELSE [rx |-> [r1 EXCEPT !.pc = "llm"], gw |-> g1]

\* react at the top of iteration r.i of `for i in range(MAX_STEPS)`
ReactIterate(r, g, avail) ==
    IF r.i >= MAX_STEPS
    THEN [rx |-> [r EXCEPT !.pc = "done", !.ret = TooManyStepsText], gw |-> g]
    ELSE LET g1 == GwEnter(g, avail)
             r1 == [r EXCEPT !.llmCalls = @ + 1]
         IN  IF g1.pc = "idle"
             THEN ReactOnResponse(r1, g1, avail)
             ELSE [rx |-> [r1 EXCEPT !.pc = "llm"], gw |-> g1]

\* the gateway call of caller l has returned with frame g: a direct caller
\* has its text; react goes on with it
Deliver(l, g, avail) ==
    IF rx[l].pc = "llm"
    THEN LET c == ReactOnResponse(rx[l], g, avail)
         IN  /\ rx' = [rx EXCEPT ![l] = c.rx]
             /\ gw' = [gw EXCEPT ![l] = c.gw]
    ELSE /\ gw' = [gw EXCEPT ![l] = g]
         /\ UNCHANGED rx

\* a caller awaits shell.call_llm_with_fallback(messages) directly
call_llm_with_fallback(l) ==
    /\ rx[l].pc = "none"
    /\ gw[l].pc = "idle"
    /\ gw[l].n < MaxCalls
    /\ gw' = [gw EXCEPT ![l] = GwEnter(gw[l], is_available)]
    /\ UNCHANGED <<schedVars, parVars, created_tasks, toolVars,
                   llm_providers, is_available, initialized, rx>>

ApiReturn(l, text) ==
    /\ gw[l].pc = "api"
    /\ Deliver(l, GwOnReturn(gw[l], text), is_available)
    /\ UNCHANGED <<schedVars, parVars, created_tasks, toolVars,
                   llm_providers, is_available, initialized>>

ApiRaise(l, e) ==
    /\ gw[l].pc = "api"
    /\ LET c == GwOnError(gw[l], e, is_available)
       IN  /\ is_available' = c.avail
           /\ IF c.gw.pc = "idle"
              THEN Deliver(l, c.gw, c.avail)
              ELSE gw' = [gw EXCEPT ![l] = c.gw] /\ UNCHANGED rx
    /\ UNCHANGED <<schedVars, parVars, created_tasks, toolVars,
                   llm_providers, initialized>>

SleepDone(l) ==
    /\ gw[l].pc = "sleep"
    /\ gw' = [gw EXCEPT ![l] = GwOnWake(gw[l])]
    /\ UNCHANGED <<schedVars, parVars, created_tasks, toolVars,
                   llm_providers, is_available, initialized, rx>>

NextGateway ==
    \/ \E keys \in SUBSET ProviderNames : initialize(keys)
    \/ \E l \in Loops : call_llm_with_fallback(l)
    \/ \E l \in Loops, text \in LLMTexts : ApiReturn(l, text)
    \/ \E l \in Loops, e \in Errors : ApiRaise(l, e)
    \/ \E l \in Loops : SleepDone(l)

SpecGateway == Init /\ [][NextGateway]_vars

\* VibeShell.react(user_input)
react(l, user_input) ==
    /\ rx[l].pc = "none"
    /\ gw[l].pc = "idle"
    /\ IF strip(<<user_input>>) = <<>>
       THEN /\ rx' = [rx EXCEPT ![l] = [NoReact EXCEPT !.pc = "done",
                                                       !.ret = EmptyInputText]]
            /\ UNCHANGED gw
       ELSE LET ui == strip(<<user_input>>)[1]
                r == [NoReact EXCEPT
                         !.user_input = ui,
                         !.messages = <<SystemMessage, UserMessage(ui)>>]
                c == ReactIterate(r, gw[l], is_available)
            IN  /\ rx' = [rx EXCEPT ![l] = c.rx]
                /\ gw' = [gw EXCEPT ![l] = c.gw]
    /\ UNCHANGED <<schedVars, parVars, created_tasks, toolVars,
                   llm_providers, is_available, initialized>>

\* the awaited execute_action returns obs
ToolDone(l, obs) ==
    /\ rx[l].pc = "tool"
    /\ LET c == ReactObserve(rx[l], gw[l], is_available, obs)
       IN  /\ rx' = [rx EXCEPT ![l] = c.rx]
           /\ gw' = [gw EXCEPT ![l] = c.gw]
    /\ UNCHANGED <<schedVars, parVars, created_tasks, toolVars,
                   llm_providers, is_available, initialized>>

\* one react loop, with every response text and every tool output
OneLoop == CHOOSE l \in Loops : \A m \in Loops : l <= m
OneError == CHOOSE e \in Errors : e = "e1"
NextReact ==
    \/ \E keys \in SUBSET ProviderNames : initialize(keys)
    \/ \E goal \in Goals : react(OneLoop, goal)
    \/ \E text \in LLMTexts : ApiReturn(OneLoop, text)
    \/ ApiRaise(OneLoop, OneError)
    \/ SleepDone(OneLoop)
    \/ \E obs \in ToolOutputs : ToolDone(OneLoop, obs)

SpecReact == Init /\ [][NextReact]_vars

\* concurrent react loops on one shell, with one provider key set, two
\* response texts (an answer, a tool action) and one tool output
LoopTexts == {<<"THOUGHT:", "t", "ANSWER:", "done">>,
              <<"THOUGHT:", "t", "ACTION:", "shell(ls)">>}
LoopGoals == {"g1", "g2"}
NextLoops ==
    \/ initialize({"anthropic"})
    \/ \E l \in Loops, goal \in LoopGoals : react(l, goal)
    \/ \E l \in Loops, text \in LoopTexts : ApiReturn(l, text)
    \/ \E l \in Loops : ApiRaise(l, OneError)
    \/ \E l \in Loops : SleepDone(l)
    \/ \E l \in Loops : ToolDone(l, "out")

SpecLoops == Init /\ [][NextLoops]_vars

\* ------------------------------------------------ sandbox tools: operations
\* Observations of the tools.  The timeout's number is left out of the
\* timed-out text; the frame keeps it.
AccessDeniedText == <<"(access denied: path outside working directory)">>
FileNotFoundText(p) == <<"(file not found:">> \o p \o <<")">>
NotAFileText(p) == <<"(not a file:">> \o p \o <<")">>
ErrorReadingText(path) == <<"(error reading">> \o path \o <<")">>
ErrorWritingText(path) == <<"(error writing">> \o path \o <<")">>
WrittenText(p) == <<"Written to">> \o p
NoCommandText == <<"(no command)">>
BlockedText(description) == <<"(blocked: potentially dangerous command -", description, ")">>
NoOutputText == <<"(no output)">>
TimedOutText == <<"(timed out)">>
ErrorExecutingCommandText == <<"(error executing command)">>
EmptyPatternText == <<"(empty search pattern)">>
ErrorExecutingText(tool) == <<"(error executing", tool, ")">>
UnknownToolObs(tool) == <<"(unknown tool:", tool, ")">>

\* Path(path).expanduser()
expanduser(path) ==
    IF path # <<>> /\ Head(path) = "~" THEN <<"/", "home">> \o Tail(path) ELSE path
\* p = Path(path).expanduser(); if not p.is_absolute(): p = Path(self.cwd) / p
Joined(path) ==
    LET p == expanduser(path) IN IF p # <<>> /\ Head(p) = "/" THEN p ELSE cwd \o p
\* Path.resolve(): ".." and "." are folded and symbolic links are followed,
\* component by component.
RECURSIVE Walk(_, _)
Walk(stack, rest) ==
    IF rest = <<>> THEN stack
    ELSE LET c == Head(rest)
         IN  IF c = "." THEN Walk(stack, Tail(rest))
             ELSE IF c = ".."
             THEN Walk(IF stack = <<>> THEN <<>>
                       ELSE SubSeq(stack, 1, Len(stack) - 1), Tail(rest))
             ELSE Walk(ReadLink(Append(stack, c)), Tail(rest))
resolve(p) == Walk(<<>>, Tail(p))
\* PurePath.relative_to(base) raises ValueError exactly when this is false.
relative_to(rp, base) == Len(rp) >= Len(base) /\ SubSeq(rp, 1, Len(base)) = base
\* variant: the path is compared as written, nothing is resolved
Confined_Lexical(path) == relative_to(Tail(Joined(path)), Tail(cwd))
\* p.resolve().relative_to(Path(self.cwd).resolve()) does not raise
Confined(path) == relative_to(resolve(Joined(path)), resolve(cwd))

is_file(fs, rp) == \E f \in fs.files : f[1] = rp
Content(fs, rp) == (CHOOSE f \in fs.files : f[1] = rp)[2]
Op(op, rp) == [op |-> op, path |-> rp]
Prefixes(rp) == {SubSeq(rp, 1, n) : n \in 0..Len(rp)}

\* A tool body starts: the frame records it with the arguments it got.
Body(f, name, params) == [f EXCEPT !.body = Some(<<name>> \o params)]
Return(f, text) == [f EXCEPT !.pc = "done", !.ret = text]
Raise(f) == [f EXCEPT !.pc = "raised"]

\* tool_read_file.  oserr: opening or reading the file fails with OSError.
\* The result is the frame and the file system after the call.
tool_read_file(f0, path, fs, oserr) ==
    LET f == Body(f0, "read_file", <<path>>)
        rp == resolve(Joined(path))
    IN  IF ~isinstance_str(path) THEN [f |-> Raise(f), fs |-> fs]
        ELSE IF ~Confined(path) THEN [f |-> Return(f, AccessDeniedText), fs |-> fs]
        ELSE IF rp \notin fs.dirs /\ ~is_file(fs, rp)
        THEN [f |-> Return(f, FileNotFoundText(Joined(path))), fs |-> fs]
        ELSE IF ~is_file(fs, rp)
        THEN [f |-> Return(f, NotAFileText(Joined(path))), fs |-> fs]
        ELSE IF oserr
        THEN [f |-> Return([f EXCEPT !.io = {Op("open", rp)}],
                           ErrorReadingText(path)), fs |-> fs]
        ELSE [f |-> Return([f EXCEPT !.io = {Op("open", rp), Op("read", rp)}],
                           Content(fs, rp)), fs |-> fs]

\* tool_write_file.  oserr: opening or writing the file fails with OSError.
tool_write_file(f0, path, content, fs, oserr) ==
    LET f == Body(f0, "write_file", <<path, content>>)
        rp == resolve(Joined(path))
        parent == SubSeq(rp, 1, Len(rp) - 1)
        made == [f EXCEPT !.io = {Op("mkdir", parent)}]
        fs1 == [fs EXCEPT !.dirs = @ \cup Prefixes(parent)]
    IN  IF ~isinstance_str(path) \/ ~isinstance_str(content)
        THEN [f |-> Raise(f), fs |-> fs]
        ELSE IF ~Confined(path) THEN [f |-> Return(f, AccessDeniedText), fs |-> fs]
        ELSE IF \E d \in Prefixes(parent) : is_file(fs, d)
        THEN [f |-> Return(made, ErrorWritingText(path)), fs |-> fs]
        ELSE IF rp \in fs1.dirs \/ oserr
        THEN [f |-> Return([made EXCEPT !.io = @ \cup {Op("open", rp)}],
                           ErrorWritingText(path)), fs |-> fs1]
        ELSE [f |-> Return([made EXCEPT !.io = @ \cup {Op("open", rp), Op("write", rp)}],
                           WrittenText(Joined(path))),
              fs |-> [fs1 EXCEPT !.files =
                          {g \in @ : g[1] # rp} \cup {<<rp, content>>}]]

\* The deny list of tool_shell: the token that the pattern finds, and the
\* pattern's description.  Three of the twelve patterns are represented.
dangerous_patterns ==
    << <<"; rm -rf /", "recursive root deletion">>,
       <<":(){ :|:& };:", "fork bomb">>,
       <<"curl http://x | sh", "pipe to shell">> >>
\* re.search(pattern, cmd, re.IGNORECASE) of pattern k
Search(k, cmd) == \E i \in DOMAIN cmd : cmd[i] = dangerous_patterns[k][1]
\* variant: no command is ever found dangerous
FirstDangerous_None(cmd) == 0
\* the first pattern of the list that the command matches, 0 when none does
FirstDangerous(cmd) ==
    IF \E k \in DOMAIN dangerous_patterns : Search(k, cmd)
    THEN CHOOSE k \in DOMAIN dangerous_patterns :
             Search(k, cmd) /\ \A j \in 1..(k - 1) : ~Search(j, cmd)
    ELSE 0

\* tool_shell up to its first suspension, the call of create_subprocess_shell.
tool_shell(f0, cmd, timeout) ==
    LET f == Body(f0, "shell", <<cmd>>)
        c == strip(cmd)
        k == FirstDangerous(c)
    IN  IF ~isinstance_str(cmd) THEN Raise(f)
        ELSE IF c = <<>> THEN Return(f, NoCommandText)
        ELSE IF k # 0 THEN Return(f, BlockedText(dangerous_patterns[k][2]))
        ELSE [f EXCEPT !.pc = "spawn", !.cmd = c, !.timeout = timeout]

SEARCH_TIMEOUT == 20
\* tool_search; shlex.quote puts the pattern and the path between quotes
tool_search(f0, pattern, path) ==
    LET f == Body(f0, "search", <<pattern, path>>)
    IN  IF ~isinstance_str(pattern) \/ ~isinstance_str(path) THEN Raise(f)
        ELSE IF strip(pattern) = <<>> THEN Return(f, EmptyPatternText)
        ELSE tool_shell(f, <<"grep -rn --", "'">> \o pattern \o <<"'", "'">> \o path
                               \o <<"'", "2>/dev/null | head -30">>, SEARCH_TIMEOUT)

\* variant: the exception of a tool leaves execute_action
Catch_Propagate(f) == f
\* except Exception as e: return f"(error executing {action.tool}: {e})"
Catch(f) == IF f.pc = "raised" THEN Return(f, ErrorExecutingText(f.tool)) ELSE f

\* execute_action(Action(tool, args)), up to its first suspension.
execute_action(tool, args, oserr) ==
    /\ tc.pc \in {"idle", "done"}
    /\ LET f0 == [IdleCall EXCEPT !.tool = tool, !.args = args]
           r == CASE tool = "shell" ->
                       [f |-> tool_shell(f0, get(args, "cmd", <<>>), DEFAULT_TIMEOUT),
                        fs |-> fsys]
                  [] tool = "read_file" ->
                       tool_read_file(f0, get(args, "path", <<>>), fsys, oserr)
                  [] tool = "write_file" ->
                       tool_write_file(f0, get(args, "path", <<>>),
                                       get(args, "content", <<>>), fsys, oserr)
                  [] tool = "search" ->
                       [f |-> tool_search(f0, get(args, "pattern", <<>>),
                                          get(args, "path", <<".">>)),
                        fs |-> fsys]
                  [] OTHER -> [f |-> Return(f0, UnknownToolObs(tool)), fs |-> fsys]
       IN  /\ tc' = Catch(r.f)
           /\ fsys' = r.fs
    /\ UNCHANGED <<schedVars, parVars, created_tasks, shellVars>>

\* create_subprocess_shell returns: /bin/sh -c cmd runs.  The shell runs the
\* command itself (child "none") or forks a process for it, which the code
\* has no handle on; that process writes to the pipes or has its output
\* redirected by the command line.  ok = FALSE: the call raises OSError.
Spawned(ok, ch) ==
    /\ tc.pc = "spawn"
    /\ tc' = IF ok
             THEN [tc EXCEPT !.pc = "communicate", !.spawns = @ + 1,
                             !.proc = "running", !.child = ch]
             ELSE Return([tc EXCEPT !.spawns = @ + 1], ErrorExecutingCommandText)
    /\ UNCHANGED <<schedVars, parVars, created_tasks, shellVars, fsys>>

\* The command's process ends by itself.
ChildExit ==
    /\ tc.child \in {"piped", "detached"}
    /\ tc' = [tc EXCEPT !.child = "exited"]
    /\ UNCHANGED <<schedVars, parVars, created_tasks, shellVars, fsys>>

\* The shell process ends by itself and the event loop reaps it.
ProcExit ==
    /\ tc.proc = "running"
    /\ tc' = [tc EXCEPT !.proc = "reaped"]
    /\ UNCHANGED <<schedVars, parVars, created_tasks, shellVars, fsys>>

\* proc.communicate() returns: the shell was reaped and both pipes are closed.
CommunicateReturn(output) ==
    /\ tc.pc = "communicate"
    /\ tc.proc = "reaped"
    /\ tc.child # "piped"
    /\ tc' = Return(tc, IF output # <<>> THEN output ELSE NoOutputText)
    /\ UNCHANGED <<schedVars, parVars, created_tasks, shellVars, fsys>>

\* except asyncio.TimeoutError: proc.kill(); await proc.wait().  When the
\* shell was already reaped, kill does nothing and wait returns at once.
OnTimeout(f) ==
    IF f.proc = "reaped"
    THEN Return([f EXCEPT !.killed = TRUE], TimedOutText)
    ELSE [f EXCEPT !.pc = "wait", !.killed = TRUE, !.proc = "killed"]

\* wait_for(proc.communicate(), timeout) times out.
CommandTimeout ==
    /\ tc.pc = "communicate"
    /\ tc' = OnTimeout(tc)
    /\ UNCHANGED <<schedVars, parVars, created_tasks, shellVars, fsys>>

\* The killed shell process is reaped by the event loop.
Reap ==
    /\ tc.proc = "killed"
    /\ tc' = [tc EXCEPT !.proc = "reaped"]
    /\ UNCHANGED <<schedVars, parVars, created_tasks, shellVars, fsys>>

\* proc.wait() returns, when the shell was reaped and both pipes are closed.
WaitReturn ==
    /\ tc.pc = "wait"
    /\ tc.proc = "reaped"
    /\ tc.child # "piped"
    /\ tc' = Return(tc, TimedOutText)
    /\ UNCHANGED <<schedVars, parVars, created_tasks, shellVars, fsys>>

\* The text between the parentheses of "ACTION: tool(...)": its parts between
\* commas, and the quote character around each part ("" when they are bare).
ArgStr(q, parts) == [q |-> q, parts |-> parts]
\* args_str.strip() of parse_llm_response, then args_str.strip('"\'')
Whole(a) ==
    IF Len(a.parts) = 1 THEN strip(a.parts[1])
    ELSE IF a.q = "" THEN a.parts[1] \o <<",">> \o a.parts[2]
    ELSE a.parts[1] \o <<a.q, ",", a.q>> \o a.parts[2]
\* _parse_action_args
parse_action_args(tool, a) ==
    CASE tool = "shell" -> Arg1("cmd", Whole(a))
      [] tool = "read_file" -> Arg1("path", Whole(a))
      [] tool = "write_file" ->
            IF a.q # "" /\ Len(a.parts) = 2 /\ a.parts[1] # <<>> /\ a.parts[2] # <<>>
            THEN Arg2("path", a.parts[1], "content", a.parts[2])
            ELSE NoArgs
      [] tool = "search" ->
            IF Len(a.parts) > 1
            THEN Arg2("pattern", a.parts[1], "path", a.parts[2])
            ELSE Arg1("pattern", a.parts[1])
      [] OTHER -> NoArgs

Action(tool, args) == [tool |-> tool, args |-> args]
ReadPaths ==
    {<<"a.txt">>, <<"..", "..", "etc", "passwd">>, <<"/", "etc", "passwd">>,
     <<"/", "w", "a.txt">>, <<"sub", "..", "a.txt">>, <<"link", "passwd">>,
     <<"/", "w2", "a.txt">>, <<"~", "x">>, <<"nope.txt">>, <<"sub">>}
WritePaths ==
    {<<"n.txt">>, <<"..", "out.txt">>, <<"/", "w2", "new", "x.txt">>,
     <<"link", "x">>, <<"new", "b.txt">>, <<"a.txt", "x">>}
\* Actions that parse_llm_response builds from the text of a backend.
ParsedActions ==
    {Action(t[1], parse_action_args(t[1], t[2])) : t \in
        {<<"shell", ArgStr("", <<<<"ls">>>>)>>,
         <<"shell", ArgStr("", <<<<" ">>>>)>>,
         <<"shell", ArgStr("", <<<<"ls", "; rm -rf /">>>>)>>,
         <<"shell", ArgStr("", <<<<"curl http://x | sh">>>>)>>,
         <<"write_file", ArgStr("", <<<<"notes.txt">>, <<"hello">>>>)>>,
         <<"search", ArgStr("\"", <<<<"x">>>>)>>,
         <<"search", ArgStr("\"", <<<<"x">>, <<"sub">>>>)>>,
         <<"bogus", ArgStr("", <<<<"x">>>>)>>}
        \cup {<<"read_file", ArgStr("\"", <<p>>)>> : p \in ReadPaths}
        \cup {<<"write_file", ArgStr("\"", <<p, <<"c">>>>)>> : p \in WritePaths}}
\* Actions that a caller of execute_action builds itself.
DirectActions ==
    {Action("shell", NoArgs), Action("shell", Arg1("cmd", NotStr)),
     Action("shell", Arg1("cmd", <<":(){ :|:& };:">>)),
     Action("shell", Arg1("cmd", <<" ", "ls", " ">>)),
     Action("read_file", NoArgs), Action("read_file", Arg1("path", NotStr)),
     Action("write_file", Arg1("path", <<"z.txt">>)),
     Action("write_file", Arg2("path", <<"n.txt">>, "content", NotStr)),
     Action("search", NoArgs), Action("search", Arg1("pattern", NotStr))}
Actions == ParsedActions \cup DirectActions

NextTools ==
    \/ \E a \in Actions : \E oserr \in BOOLEAN :
           execute_action(a.tool, a.args, oserr)
    \/ \E ok \in BOOLEAN : \E ch \in {"none", "piped", "detached"} : Spawned(ok, ch)
    \/ ChildExit
    \/ ProcExit
    \/ \E output \in {<<>>, <<"out">>} : CommunicateReturn(output)
    \/ CommandTimeout
    \/ Reap
    \/ WaitReturn
SpecTools == Init /\ [][NextTools]_vars

\* ------------------------------------------------------------------ claims
InFlight(t) == \E a \in AgentIds : inflight[t][a] > 0 \/ returned[t][a] > 0

\* C1: during one run, SubAgent.execute is invoked at most once for every
\* task id, whatever the task graph and the interleaving of completions.
C1_AtMostOnceExecution ==
    \A t \in TaskIds : execCount[t] <= 1

\* C2: a task is dispatched to an executor (execute is called on it) only in
\* a state where each of its dependencies that is in the task set is
\* Completed.
C2_DependencySafety ==
    [][\A t \in TaskIds :
          execCount'[t] > execCount[t] =>
              \A d \in deps[t] : d \in tasks => status[d] = COMPLETED]_vars

\* C3: once the scheduler has nothing left to run, every task that depends
\* on a Failed task is itself Failed with the error "failed dependency" and
\* its executor was never invoked (dependency by dependency, so transitively).
C3_FailedDependencyPropagation ==
    Quiescent =>
        \A t \in tasks : \A d \in deps[t] :
            (d \in tasks /\ status[d] = FAILED) =>
                /\ status[t] = FAILED
                /\ result[t].error = "failed dependency"
                /\ execCount[t] = 0

\* C4: a terminal status (Completed, Failed, Cancelled) never changes again,
\* a terminal task is never executed again, and no task returns to Pending.
C4_StatusMonotonic ==
    [][\A t \in tasks :
          /\ is_done(t) => (status'[t] = status[t] /\ execCount'[t] = execCount[t])
          /\ status[t] # PENDING => status'[t] # PENDING]_vars

\* C5: while a task is Cancelled and an execution of it is still in flight,
\* no step applies that execution's outcome: the status stays Cancelled and
\* the result stays as it is.
C5_CancelPreventsResult ==
    [][\A t \in tasks :
          (status[t] = CANCELLED /\ InFlight(t)) =>
              (status'[t] = CANCELLED /\ result'[t] = result[t])]_vars

\* C6: a task Cancelled before any execution of it started (cancelled while
\* Pending) never has its executor invoked afterwards.
C6_CancelledPendingNeverRuns ==
    [][\A t \in tasks :
          (status[t] = CANCELLED /\ execCount[t] = 0) => execCount'[t] = 0]_vars

\* C7: during execute_parallel, at most max_parallel of the call's tasks are
\* in flight (submitted and not terminal) at any moment.
InFlightGoals == {g \in 1..parN : goalTask[g] # 0 /\ ~is_done(goalTask[g])}

C8_ParallelResultsComplete ==
    [][\A g \in TaskIds :
          (goalPc[g] = "poll" /\ goalPc'[g] = "done") =>
              /\ is_done(goalTask[g])
              /\ status[goalTask[g]] \in {COMPLETED, FAILED} => goalResult'[g].present]_vars

\* C9: for an acyclic workflow whose dependencies name other configs' ids,
\* once the scheduler has nothing left to run and no task of the workflow
\* failed or was cancelled, every task of the workflow was dispatched and is
\* Completed.
C9_WorkflowProgress ==
    (/\ created_tasks # <<>>
     /\ Quiescent
     /\ \A i \in DOMAIN created_tasks :
           status[created_tasks[i]] \notin {FAILED, CANCELLED}) =>
        \A i \in DOMAIN created_tasks :
            /\ status[created_tasks[i]] = COMPLETED
            /\ execCount[created_tasks[i]] >= 1

\* C10: submit_task queues the dispatch of every task that is ready at
\* submission: one whose dependencies are each Completed or absent from the
\* task set, also when it declares dependencies.
C10_SubmitDispatchesReady ==
    [][\A t \in TaskIds :
          (t \notin tasks /\ t \in tasks'
           /\ \A d \in deps'[t] : d \in tasks => status[d] = COMPLETED) =>
              sched'[t] > 0]_vars

\* C11: when the work inside SubAgent.execute raises, execute returns a
\* TaskResult with success = false and the exception message as its error,
\* and the scheduler leaves the task Failed with that TaskResult: once the
\* scheduler has nothing left to run, every executed task that is Failed
\* holds such a result.
C11_ExecutorFailureCaptured ==
    Quiescent =>
        \A t \in tasks :
            (status[t] = FAILED /\ execCount[t] >= 1) =>
                /\ result[t].present
                /\ ~result[t].success
                /\ result[t].error # ""

\* C12: a task for which no executor is found (it is Failed and execute was
\* never called on it) has a TaskResult with success = false whose error
\* says that no suitable executor was found.
C12_NoExecutorReported ==
    \A t \in tasks :
        (status[t] = FAILED /\ execCount[t] = 0) =>
            /\ result[t].present
            /\ ~result[t].success
            /\ result[t].error = "No suitable agent found"

\* the latest gateway call of caller l ended with "All LLM providers failed"
AllFailed(l) ==
    /\ gw[l].pc = "idle"
    /\ Len(gw[l].ret) = 3
    /\ gw[l].ret[2] = "All LLM providers failed. Last error:"

\* the positions in llm_providers of the providers that failed at least
\* once in the latest gateway call of caller l
Attempted(l) ==
    {k \in DOMAIN llm_providers : gw[l].fails[llm_providers[k]] > 0}

\* C13 (as stated): when every backend fails, the error of the call names
\* the last failure of each backend that was tried.
C13_ErrorNamesEachBackend ==
    \A l \in Loops :
        AllFailed(l) =>
            \A k \in Attempted(l) :
                gw[l].errs[llm_providers[k]] = gw[l].ret[3]

\* C13 (amended): when every backend fails, the call ends with one
\* all-providers-failed text that carries only the most recent failure, the
\* last failed attempt of the last backend tried in that call (empty when
\* no backend was tried), and every backend tried has failed
\* MAX_LLM_RETRIES times.
C13_ErrorIsLastFailureOnly ==
    \A l \in Loops :
        AllFailed(l) =>
            LET att == Attempted(l)
                last == CHOOSE k \in att : \A m \in att : m <= k
            IN  /\ gw[l].ret[1] = "ANSWER:"
                /\ gw[l].ret[3] = IF att = {} THEN ""
                                  ELSE gw[l].errs[llm_providers[last]]
                /\ \A k \in att :
                       gw[l].fails[llm_providers[k]] = MAX_LLM_RETRIES

\* C13 witness: a call that failed on two backends whose last failures
\* differ, and reports the second one's
C13_Witness ==
    \E l \in Loops :
        /\ AllFailed(l)
        /\ Cardinality(Attempted(l)) = 2
        /\ gw[l].errs["anthropic"] = "e1"
        /\ gw[l].errs["openai"] = "e2"
        /\ gw[l].ret[3] = "e2"

\* C14: when an attempt on a backend succeeds, the gateway returns that
\* backend's text and stops: the call has ended, the backend was called
\* exactly once more than it failed, and no later backend was called.
C14_SuccessStopsFallback ==
    \A l \in Loops :
        gw[l].by # "" =>
            /\ gw[l].pc = "idle"
            /\ gw[l].ret \in LLMTexts
            /\ gw[l].calls[gw[l].by] = gw[l].fails[gw[l].by] + 1
            /\ \A k \in DOMAIN llm_providers :
                   Priority(llm_providers[k]) > Priority(gw[l].by) =>
                       gw[l].calls[llm_providers[k]] = 0

\* C14 witness: the first of two backends succeeded on its second attempt
C14_Witness ==
    \E l \in Loops :
        /\ Len(llm_providers) = 2
        /\ gw[l].by = "anthropic"
        /\ gw[l].fails["anthropic"] = 1
        /\ gw[l].calls["openai"] = 0

\* in this step the gateway call of caller l makes its first API call to
\* the provider at position k
FirstCalled(l, k) ==
    /\ gw'[l] # gw[l]
    /\ gw'[l].pc = "api"
    /\ gw'[l].prov = k
    /\ gw'[l].attempt = 0

\* C15: backends are tried in ascending priority order: a backend is first
\* called only after every earlier backend has made exactly MAX_LLM_RETRIES
\* failed attempts in that call.
C15_EarlierBackendsExhausted ==
    [][\A l \in Loops : \A k \in DOMAIN llm_providers :
          FirstCalled(l, k) =>
              \A j \in 1..(k - 1) :
                  gw'[l].fails[llm_providers[j]] = MAX_LLM_RETRIES]_vars

\* C16: a backend flagged unavailable is skipped only for the rest of that
\* call: every later call attempts it again, so every call made with
\* providers configured starts with an API call to the first provider.
C16_UnavailableOnlyWithinCall ==
    [][\A l \in Loops :
          (gw'[l].n = gw[l].n + 1 /\ llm_providers # <<>>) =>
              gw'[l].calls[llm_providers[1]] >= 1]_vars

\* step k of the react loop of caller l has an action and no answer
ActionOnly(l, k) ==
    rx[l].steps[k].action # "" /\ ~Truthy(rx[l].steps[k].answer)

\* C17: the loop makes at most MAX_STEPS gateway calls; when every step
\* carries an action and no answer it returns the budget-exceeded message
\* after exactly MAX_STEPS gateway calls and MAX_STEPS tool executions.
C17_StepBudget ==
    \A l \in Loops :
        /\ gw[l].n <= MAX_STEPS
        /\ rx[l].llmCalls = gw[l].n
        /\ rx[l].toolRuns <= MAX_STEPS
        /\ (rx[l].pc = "done" /\ rx[l].steps # <<>>
              /\ \A k \in DOMAIN rx[l].steps : ActionOnly(l, k))
           => rx[l].ret = TooManyStepsText
        /\ (rx[l].pc = "done" /\ rx[l].ret = TooManyStepsText)
           => /\ gw[l].n = MAX_STEPS
              /\ rx[l].toolRuns = MAX_STEPS
              /\ Len(rx[l].steps) = MAX_STEPS
              /\ \A k \in DOMAIN rx[l].steps : ActionOnly(l, k)

\* C17 witness: a loop has returned the budget-exceeded message
C17_Witness ==
    \E l \in Loops : rx[l].pc = "done" /\ rx[l].ret = TooManyStepsText

\* C18: a step with a (non-empty) answer ends the loop at once: it is the
\* last step, the loop has returned that answer, no tool was executed for
\* the step even when it also carries an action, and no further gateway
\* call was made.
C18_AnswerIsTerminal ==
    \A l \in Loops : \A k \in DOMAIN rx[l].steps :
        Truthy(rx[l].steps[k].answer) =>
            /\ k = Len(rx[l].steps)
            /\ rx[l].pc = "done"
            /\ rx[l].ret = rx[l].steps[k].answer[1]
            /\ rx[l].steps[k].observation = None
            /\ rx[l].toolRuns = k - 1
            /\ gw[l].n = k
            /\ gw[l].pc = "idle"

\* C18 witness: the loop returned the answer of a second step that also
\* carried an action
C18_Witness ==
    \E l \in Loops :
        /\ rx[l].pc = "done"
        /\ Len(rx[l].steps) = 2
        /\ rx[l].steps[2].action = "shell"
        /\ rx[l].ret = <<"done">>
        /\ rx[l].toolRuns = 1

\* the (response, observation) messages of steps 1..k of caller l
RECURSIVE Pairs(_, _)
Pairs(l, k) ==
    IF k = 0 THEN <<>>
    ELSE Pairs(l, k - 1) \o
         <<AssistantMessage(rx[l].responses[k]),
           ObservationMessage(rx[l].steps[k].observation[1])>>

\* C19: within one loop gateway call k+1 is made only after the
\* observation of step k was appended: while call k+1 is awaited, and
\* whenever the loop is suspended or has returned, the history is the
\* system and goal messages followed by the (response, observation) pairs
\* of the observed steps in order, built from this loop's own steps only.
C19_StrictStepSequencing ==
    \A l \in Loops :
        rx[l].messages # <<>> =>
            LET seen == {k \in DOMAIN rx[l].steps :
                            rx[l].steps[k].observation # None}
            IN  /\ seen = 1..rx[l].i
                /\ rx[l].messages =
                       <<SystemMessage, UserMessage(rx[l].user_input)>>
                       \o Pairs(l, rx[l].i)
                /\ rx[l].pc = "llm" =>
                       /\ gw[l].n = rx[l].i + 1
                       /\ Len(rx[l].steps) = rx[l].i
                /\ rx[l].pc = "tool" =>
                       /\ gw[l].n = rx[l].i + 1
                       /\ Len(rx[l].steps) = rx[l].i + 1
                       /\ gw[l].pc = "idle"

\* C19 witness: two loops with different goals, each awaiting its third
\* gateway call after two observed steps
C19_Witness ==
    /\ \A l \in Loops : rx[l].pc = "llm" /\ rx[l].i = 2
    /\ \E l, m \in Loops : rx[l].user_input # rx[m].user_input

\* C20: a step with neither an action nor a (non-empty) answer ends the
\* loop: it is the last step, the loop has returned the insufficient-
\* information text as a normal return, and neither a further gateway call
\* nor a tool execution was made for it.
C20_NoActionNoAnswer ==
    \A l \in Loops : \A k \in DOMAIN rx[l].steps :
        (rx[l].steps[k].action = "" /\ ~Truthy(rx[l].steps[k].answer)) =>
            /\ k = Len(rx[l].steps)
            /\ rx[l].pc = "done"
            /\ rx[l].ret = NotSureText
            /\ rx[l].steps[k].observation = None
            /\ rx[l].toolRuns = k - 1
            /\ gw[l].n = k
            /\ gw[l].pc = "idle"

\* C20 witness: after one tool step, a response without markers made the
\* loop return the insufficient-information text
C20_Witness ==
    \E l \in Loops :
        /\ rx[l].pc = "done"
        /\ rx[l].ret = NotSureText
        /\ Len(rx[l].steps) = 2
        /\ rx[l].responses[2] = <<"hello">>

\* the number of tasks execute_workflow created that are Running
RunningWorkflowTasks ==
    Cardinality({i \in DOMAIN created_tasks : status[created_tasks[i]] = RUNNING})

\* C25: the tasks execute_workflow starts are under a cap on simultaneous
\* in-flight dispatches: however many of its tasks are ready together, no
\* more than the cap (here the largest cap the entry points are given,
\* MaxParallel) are Running at the same time.
C25_WorkflowConcurrencyCap ==
    RunningWorkflowTasks <= MaxParallel

\* C30: a task that declares dependencies is dispatched (execute is called
\* on it) only in a state where each of its dependencies that is in the
\* task map is Completed, Failed or Cancelled.
C30_DependentsWaitForTerminal ==
    [][\A t \in TaskIds :
          (execCount'[t] > execCount[t] /\ deps[t] # {}) =>
              \A d \in deps[t] : d \in tasks => is_done(d)]_vars

\* C29: once the scheduler has nothing left to run, the callbacks were
\* notified of every task whose dispatch ended, whether it ended Completed
\* or Failed (by its executor, by the timeout or for want of an executor).
C29_CompletionCallbacks ==
    Quiescent =>
        \A t \in tasks :
            status[t] \in {COMPLETED, FAILED} => notified[t] >= 1

\* the number of executions in flight on agent a
Load(a) ==
    LET RECURSIVE Sum(_)
        Sum(n) == IF n = 0 THEN 0 ELSE inflight[n][a] + Sum(n - 1)
    IN  Sum(MaxTasks)

\* C26: when a task names no registered agent and registered agents have
\* its type, execute is called on the first registered agent of that type,
\* whatever the agents' loads.
C26_FirstRegisteredWins ==
    [][\A t \in TaskIds : \A a \in AgentIds :
          ( /\ inflight'[t][a] > inflight[t][a]
            /\ agentArg[t] \notin 1..Len(agents)
            /\ \E k \in 1..Len(agents) : agents[k] = agentType[t] )
          => /\ a \in 1..Len(agents)
             /\ agents[a] = agentType[t]
             /\ \A j \in 1..(a - 1) : agents[j] # agentType[t]]_vars

\* C26 witness: two agents of one type; the first registered runs two tasks
\* that named no agent while the second is idle
C26_Witness ==
    /\ Len(agents) = 2
    /\ agents[1] = agents[2]
    /\ Load(1) = 2
    /\ Load(2) = 0
    /\ \A t \in tasks : agentArg[t] = NoAgent /\ agentType[t] = agents[1]

\* The path resolves to a place outside the working directory.
Outside(path) ==
    isinstance_str(path) /\ ~relative_to(resolve(Joined(path)), resolve(cwd))
\* A call of read_file or write_file with a string as content has returned.
FileCall ==
    /\ tc.pc = "done"
    /\ tc.tool \in {"read_file", "write_file"}
    /\ isinstance_str(get(tc.args, "content", <<>>))

Denied(cmd) ==
    isinstance_str(cmd) /\ \E k \in DOMAIN dangerous_patterns : Search(k, strip(cmd))

\* C22: a shell action whose command matches a pattern of the deny list
\* returns a blocked observation, and no subprocess is spawned for it.
C22_DenyListPrecedesExecution ==
    (tc.tool = "shell" /\ tc.pc # "idle" /\ Denied(get(tc.args, "cmd", <<>>))) =>
        /\ tc.pc = "done"
        /\ tc.spawns = 0 /\ tc.proc = "none"
        /\ \E k \in DOMAIN dangerous_patterns :
               tc.ret = BlockedText(dangerous_patterns[k][2])
\* C22 witness: the fork bomb was blocked.
C22_Witness ==
    /\ tc.tool = "shell" /\ tc.pc = "done"
    /\ get(tc.args, "cmd", <<>>) = <<":(){ :|:& };:">>
    /\ tc.ret = BlockedText("fork bomb")

\* C23: no call of execute_action on an Action ends with an exception: the
\* call is suspended inside the tool or has returned an observation.
C23_EveryOutcomeIsAValue ==
    /\ tc.pc \in {"idle", "spawn", "communicate", "wait", "done"}
    /\ tc.pc = "done" => tc.ret \in
           {AccessDeniedText, NoCommandText, NoOutputText, TimedOutText,
            ErrorExecutingCommandText, EmptyPatternText, <<"out">>}
           \cup {ErrorExecutingText(t) : t \in TOOLS}
           \cup {UnknownToolObs(a.tool) : a \in Actions}
           \cup {BlockedText(dangerous_patterns[k][2]) : k \in DOMAIN dangerous_patterns}
           \cup {f[2] : f \in fsys.files}
           \cup UNION {{FileNotFoundText(Joined(p)), NotAFileText(Joined(p)),
                        ErrorReadingText(p), ErrorWritingText(p),
                        WrittenText(Joined(p))} :
                       p \in ReadPaths \cup WritePaths \cup {<<>>, <<"z.txt">>}}
\* C23 witness: the tool raised (the command is not a string) and the call
\* returned the error as an observation.
C23_Witness ==
    /\ tc.pc = "done" /\ tc.tool = "shell"
    /\ get(tc.args, "cmd", <<>>) = NotStr
    /\ tc.ret = ErrorExecutingText("shell")

\* The arguments that the tool's function has no default for.
Required(tool) ==
    CASE tool = "shell" -> {"cmd"}
      [] tool = "read_file" -> {"path"}
      [] tool = "write_file" -> {"path", "content"}
      [] tool = "search" -> {"pattern"}
      [] OTHER -> {}
\* The tool is unknown, or an argument is missing or is not a string.
Invalid(tool, args) ==
    \/ tool \notin TOOLS
    \/ ~(Required(tool) \subseteq DOMAIN args)
    \/ \E k \in DOMAIN args : ~isinstance_str(args[k])

\* C24: for an Action with an unknown tool or with missing or malformed
\* arguments, no tool body runs.
C24_ActionValidation ==
    (tc.pc # "idle" /\ Invalid(tc.tool, tc.args)) => tc.body = None

\* C28: when tool_shell has returned the timed-out observation, the shell
\* process was killed and reaped and no process of the command is running.
C28_NoSubprocessAfterTimeout ==
    (tc.pc = "done" /\ tc.ret = TimedOutText) =>
        /\ tc.killed
        /\ tc.proc = "reaped"
        /\ tc.child \notin {"piped", "detached"}

\* The delays of an exponential backoff of n steps: base, 2 base, 4 base, ...
Backoff(n) == [a \in 1..n |-> LLM_RETRY_DELAY * 2 ^ (a - 1)]

\* C27: within one gateway call, a provider is attempted at most
\* MAX_LLM_RETRIES times; the delay slept after its failed attempt number a
\* (a = 0, 1, ...) is LLM_RETRY_DELAY * 2^a; every delay is followed by
\* another attempt, so that there is one delay fewer than attempts and none
\* after the last attempt.
C27_ExponentialBackoff ==
    \A l \in Loops : \A p \in ProviderNames :
        LET g == gw[l]
        IN  /\ g.calls[p] <= MAX_LLM_RETRIES
            /\ Len(g.slept[p]) <= MAX_LLM_RETRIES - 1
            /\ g.slept[p] = Backoff(Len(g.slept[p]))
            /\ Len(g.slept[p]) =
                   IF g.pc = "sleep" /\ llm_providers[g.prov] = p THEN g.calls[p]
                   ELSE IF g.calls[p] = 0 THEN 0 ELSE g.calls[p] - 1
            /\ g.fails[p] = MAX_LLM_RETRIES =>
                   Len(g.slept[p]) = MAX_LLM_RETRIES - 1
\* C27 witness: every attempt on a provider failed and the call went on (or
\* returned) after the delays 1 and 2, without a delay after the last one.
C27_Witness ==
    \E l \in Loops : \E p \in ProviderNames :
        /\ gw[l].fails[p] = MAX_LLM_RETRIES
        /\ gw[l].slept[p] = <<LLM_RETRY_DELAY, 2 * LLM_RETRY_DELAY>>
        /\ gw[l].pc # "sleep"

=============================================================================
